---- MODULE Spec2Model ----
(***************************************************************************)
(* The write-only S3 filesystem: the per-file Upload state machine         *)
(* (src/src/upload.rs), the id generator (src/src/id_generator.rs) and the *)
(* FUSE dispatcher with its node table                                     *)
(* (src/src/s3_write_only_filesystem.rs).                                  *)
(*                                                                         *)
(* The FUSE library hands the dispatcher one request at a time             *)
(* (every handler takes &mut self) and every object-store call is awaited  *)
(* with Runtime::block_on before the handler returns, so one handler is    *)
(* one atomic action.  The object store is the environment: each call      *)
(* it receives is appended to the log of the file it was issued for, and   *)
(* its outcome is chosen nondeterministically.                             *)
(*                                                                         *)
(* Strings are sequences of one-character strings.  A byte string is a     *)
(* sequence of runs [b |-> byte, n |-> count] in normal form (no empty run,*)
(* no two adjacent runs of the same byte), so that buffers of 5 MiB keep   *)
(* their real length.                                                      *)
(***************************************************************************)
EXTENDS Integers, Sequences, FiniteSets, TLC

VARIABLES
    device,           \* the device string the filesystem was mounted with
    s3_bucket,        \* S3WriteOnlyFilesystem.s3_bucket
    s3_prefix_path,   \* S3WriteOnlyFilesystem.s3_prefix_path (None or a string)
    id_generator,     \* S3WriteOnlyFilesystem.id_generator
    nodes,            \* S3WriteOnlyFilesystem.nodes: inode -> Node
    dropped,          \* the dispatcher has been dropped
    reply,            \* the reply the last handler sent to the kernel
    rpc_log,          \* object store: inode of the file -> requests received for it
    next_upload_id,   \* object store: the next upload id it hands out
    issued,           \* history: the <<inode, name>> of every create, in order
    written,          \* history: inode -> every byte passed to write for it, in order
    released,         \* history: inode -> the result of the release that removed its node
    n_writes,         \* history: number of write requests that found their node
    n_failures,       \* history: number of object-store calls that did not succeed
    rpc_under_lock,   \* history: a request was sent while the guard of nodes was alive
    id_start,         \* the start value id_generator was constructed with
    id_returned,      \* history: caller -> the values next returned to it, in order
    write_failed      \* history: inode -> the length of its log when a write first replied EIO

vars ==
    << device, s3_bucket, s3_prefix_path, id_generator, nodes, dropped, reply,
       rpc_log, next_upload_id, issued, written, released, n_writes, n_failures,
       rpc_under_lock, id_start, id_returned, write_failed >>

---------------------------------------------------------------------------
(* Bounds of the model. *)

MaxCreates == 2

MaxWrites == 2

MaxFailures == 1

\* The longest device string a mount is tried with.
MaxDeviceLen == 8

\* The number of concurrent callers of one IdGenerator.
MaxCallers == 3

\* The number of calls of next each of them makes.
MaxCalls == 2

---------------------------------------------------------------------------
(* Program constants. *)

MULTIPART_MINIMUM_PART_SIZE == 5 * 1024 * 1024

ROOT_DIRECTORY_INODE == 1

HELP_EN_INODE == 2

HELP_DE_INODE == 3

FIRST_NODE_INODE == 10

GENERATION == 0

HELP_EN_NAME ==
  <<
    "_", "U", "p", "l", "o", "a", "d", "e", "d", " ", "f", "i", "l",
    "e", "s", " ", "w", "i", "l", "l", " ", "n", "o", "t", " ", "b",
    "e", " ", "v", "i", "s", "i", "b", "l", "e", ".", "t", "x", "t"
  >>

HELP_DE_NAME ==
  <<
    "_", "H", "o", "c", "h", "g", "e", "l", "a", "d", "e", "n", "e",
    " ", "D", "a", "t", "e", "i", "e", "n", " ", "w", "e", "r", "d",
    "e", "n", " ", "n", "i", "c", "h", "t", " ", "s", "i", "c", "h",
    "t", "b", "a", "r", " ", "s", "e", "i", "n", ".", "t", "x", "t"
  >>

STATIC_INODES == {ROOT_DIRECTORY_INODE, HELP_EN_INODE, HELP_DE_INODE}

ENOENT == "ENOENT"

EIO == "EIO"

EACCES == "EACCES"

None == "None"

---------------------------------------------------------------------------
(* Byte strings (Vec<u8>, &[u8]). *)

Bytes(b, n) == IF n = 0 THEN << >> ELSE << [b |-> b, n |-> n] >>

RECURSIVE ByteLen(_)
ByteLen(x) == IF x = << >> THEN 0 ELSE x[1].n + ByteLen(Tail(x))

\* Vec::extend_from_slice: x followed by y.
extend_from_slice(x, y) ==
    IF x = << >> THEN y
    ELSE IF y = << >> THEN x
    ELSE IF x[Len(x)].b = y[1].b
         THEN SubSeq(x, 1, Len(x) - 1)
                  \o << [b |-> y[1].b, n |-> x[Len(x)].n + y[1].n] >>
                  \o Tail(y)
         ELSE x \o y

\* The slice [from, to) of a string of characters.
Slice(s, from, to) == SubSeq(s, from + 1, to)

Min(a, b) == IF a <= b THEN a ELSE b

---------------------------------------------------------------------------
(* IdGenerator: the value of the AtomicU64. *)

IdGenerator_new(start) == start

\* A next that adds two.
IdGenerator_next_by_two(gen) == [gen |-> gen + 2, value |-> gen]

\* A next that returns the value after the add.
IdGenerator_next_after(gen) == [gen |-> gen + 1, value |-> gen + 1]

\* A next that reads the counter and does not add.
IdGenerator_next_stuck(gen) == [gen |-> gen, value |-> gen]

\* IdGenerator::next, fetch_add(1): the value before the add is returned.
IdGenerator_next(gen) == [gen |-> gen + 1, value |-> gen]

---------------------------------------------------------------------------
(* The object store's answers.  A call either fails ("Err") or is answered; *)
(* the answer to create-multipart-upload and upload-part carries an        *)
(* optional field (upload_id, e_tag) that is present ("Some") or absent    *)
(* ("None").                                                               *)

OptionalOutcomes == {"Err", "None", "Some"}

PlainOutcomes == {"Err", "Ok"}

\* The e_tag the object store hands out for a part.
ETag(id, number) == << "etag", id, number >>

---------------------------------------------------------------------------
(* Upload (src/src/upload.rs).  Each operation returns ok (Result is Ok),  *)
(* the requests it sent, and for write the next Upload.                    *)

Empty == [state |-> "Empty"]

Upload_new(bucket, key) ==
    [state |-> "Regular", bucket |-> bucket, key |-> key, current_buffer |-> << >>]

create_multipart_upload(bucket, key, outcome, uid) ==
    [ok |-> outcome = "Some",
     upload_id |-> uid,
     rpcs |-> << [bucket |-> bucket, key |-> key, outcome |-> outcome,
                  upload_id |-> IF outcome = "Some" THEN uid ELSE None,
                  op |-> "create_multipart_upload"] >>]

upload_part(bucket, key, upload_id, part_number, body, outcome) ==
    [ok |-> outcome = "Some",
     rpcs |-> << [bucket |-> bucket, key |-> key, outcome |-> outcome,
                  upload_id |-> upload_id, op |-> "upload_part",
                  part_number |-> part_number, body |-> body] >>,
     part |-> [part_number |-> part_number, e_tag |-> ETag(upload_id, part_number)]]

Multipart(bucket, key, upload_id, gen, buffer, parts) ==
    [state |-> "Multipart", bucket |-> bucket, key |-> key,
     current_buffer |-> buffer, parts |-> parts,
     multipart_upload_id |-> upload_id,
     multipart_part_number_generator |-> gen]

Failed(rpcs) == [ok |-> FALSE, rpcs |-> rpcs]

\* A Regular arm that keeps only the data of the last write.
Upload_write_regular_overwrite(self, data) ==
    [ok |-> TRUE, rpcs |-> << >>, upload |-> [self EXCEPT !.current_buffer = data]]

\* A Regular arm that starts the multipart upload before the threshold is reached.
Upload_write_regular_eager(self, data) ==
    [ok |-> TRUE,
     rpcs |-> create_multipart_upload(self.bucket, self.key, "Some", 0).rpcs,
     upload |-> [self EXCEPT !.current_buffer = extend_from_slice(@, data)]]

\* Upload::write, Regular arm below the threshold.
Upload_write_regular(self, data) ==
    LET buffer == extend_from_slice(self.current_buffer, data)
    IN  [ok |-> TRUE, rpcs |-> << >>,
         upload |-> [self EXCEPT !.current_buffer = buffer]]

\* A promotion that keeps the bytes it has uploaded in the buffer.
Upload_write_promote_keeps_buffer(self, buffer, oc, op, uid) ==
    LET gen0 == IdGenerator_new(1)
        c    == create_multipart_upload(self.bucket, self.key, oc, uid)
        n    == IdGenerator_next(gen0)
        p    == upload_part(self.bucket, self.key, c.upload_id, n.value, buffer, op)
    IN  IF ~c.ok THEN Failed(c.rpcs)
        ELSE IF ~p.ok THEN Failed(c.rpcs \o p.rpcs)
        ELSE [ok |-> TRUE, rpcs |-> c.rpcs \o p.rpcs,
              upload |-> Multipart(self.bucket, self.key, c.upload_id, n.gen,
                                   buffer, << p.part >>)]

\* A promotion that sends the first part a second time when it was not
\* acknowledged.
Upload_write_promote_retries(self, buffer, oc, op, uid) ==
    LET gen0 == IdGenerator_new(1)
        c    == create_multipart_upload(self.bucket, self.key, oc, uid)
        n    == IdGenerator_next(gen0)
        p    == upload_part(self.bucket, self.key, c.upload_id, n.value, buffer, op)
        q    == upload_part(self.bucket, self.key, c.upload_id, n.value, buffer, "Some")
    IN  IF ~c.ok THEN Failed(c.rpcs)
        ELSE [ok |-> TRUE,
              rpcs |-> c.rpcs \o p.rpcs \o (IF p.ok THEN << >> ELSE q.rpcs),
              upload |-> Multipart(self.bucket, self.key, c.upload_id, n.gen,
                                   << >>, << q.part >>)]

\* Upload::write, Regular arm at or above the threshold: the promotion.
Upload_write_promote(self, buffer, oc, op, uid) ==
    LET gen0 == IdGenerator_new(1)
        c    == create_multipart_upload(self.bucket, self.key, oc, uid)
        n    == IdGenerator_next(gen0)
        p    == upload_part(self.bucket, self.key, c.upload_id, n.value, buffer, op)
    IN  IF ~c.ok THEN Failed(c.rpcs)
        ELSE IF ~p.ok THEN Failed(c.rpcs \o p.rpcs)
        ELSE [ok |-> TRUE, rpcs |-> c.rpcs \o p.rpcs,
              upload |-> Multipart(self.bucket, self.key, c.upload_id, n.gen,
                                   << >>, << p.part >>)]

\* A Multipart arm that sends a part only when the buffer has grown past the
\* threshold.
Upload_write_multipart_late(self, buffer, op) ==
    LET n == IdGenerator_next(self.multipart_part_number_generator)
        p == upload_part(self.bucket, self.key, self.multipart_upload_id,
                         n.value, buffer, op)
    IN  IF ByteLen(buffer) > MULTIPART_MINIMUM_PART_SIZE
        THEN IF ~p.ok THEN Failed(p.rpcs)
             ELSE [ok |-> TRUE, rpcs |-> p.rpcs,
                   upload |-> Multipart(self.bucket, self.key,
                                        self.multipart_upload_id, n.gen,
                                        << >>, Append(self.parts, p.part))]
        ELSE [ok |-> TRUE, rpcs |-> << >>,
              upload |-> [self EXCEPT !.current_buffer = buffer]]

\* Upload::write, Multipart arm.
Upload_write_multipart(self, buffer, op) ==
    LET n == IdGenerator_next(self.multipart_part_number_generator)
        p == upload_part(self.bucket, self.key, self.multipart_upload_id,
                         n.value, buffer, op)
    IN  IF ByteLen(buffer) >= MULTIPART_MINIMUM_PART_SIZE
        THEN IF ~p.ok THEN Failed(p.rpcs)
             ELSE [ok |-> TRUE, rpcs |-> p.rpcs,
                   upload |-> Multipart(self.bucket, self.key,
                                        self.multipart_upload_id, n.gen,
                                        << >>, Append(self.parts, p.part))]
        ELSE [ok |-> TRUE, rpcs |-> << >>,
              upload |-> [self EXCEPT !.current_buffer = buffer]]

\* A write that promotes only when the buffer has grown past the threshold.
Upload_write_late(self, data, oc, op, uid) ==
    IF self.state = "Regular"
    THEN LET buffer == extend_from_slice(self.current_buffer, data)
         IN  IF ByteLen(buffer) > MULTIPART_MINIMUM_PART_SIZE
             THEN Upload_write_promote(self, buffer, oc, op, uid)
             ELSE Upload_write_regular(self, data)
    ELSE IF self.state = "Multipart"
    THEN Upload_write_multipart(self, extend_from_slice(self.current_buffer, data), op)
    ELSE [ok |-> TRUE, rpcs |-> << >>, upload |-> self]

\* A write that promotes as soon as the buffer holds a byte.
Upload_write_early(self, data, oc, op, uid) ==
    IF self.state = "Regular"
    THEN LET buffer == extend_from_slice(self.current_buffer, data)
         IN  IF ByteLen(buffer) >= 1
             THEN Upload_write_promote(self, buffer, oc, op, uid)
             ELSE Upload_write_regular(self, data)
    ELSE IF self.state = "Multipart"
    THEN Upload_write_multipart(self, extend_from_slice(self.current_buffer, data), op)
    ELSE [ok |-> TRUE, rpcs |-> << >>, upload |-> self]

\* Upload::write(self, data); oc and op are the object store's answers to
\* create-multipart-upload and upload-part, uid the upload id it would hand out.
Upload_write(self, data, oc, op, uid) ==
    IF self.state = "Regular"
    THEN LET buffer == extend_from_slice(self.current_buffer, data)
         IN  IF ByteLen(buffer) >= MULTIPART_MINIMUM_PART_SIZE
             THEN Upload_write_promote(self, buffer, oc, op, uid)
             ELSE Upload_write_regular(self, data)
    ELSE IF self.state = "Multipart"
    THEN Upload_write_multipart(self, extend_from_slice(self.current_buffer, data), op)
    ELSE [ok |-> TRUE, rpcs |-> << >>, upload |-> self]

put_object(bucket, key, body, outcome) ==
    [ok |-> outcome = "Ok",
     rpcs |-> << [bucket |-> bucket, key |-> key, outcome |-> outcome,
                  op |-> "put_object", body |-> body] >>]

complete_multipart_upload(bucket, key, upload_id, parts, outcome) ==
    [ok |-> outcome = "Ok",
     rpcs |-> << [bucket |-> bucket, key |-> key, outcome |-> outcome,
                  upload_id |-> upload_id, op |-> "complete_multipart_upload",
                  parts |-> parts] >>]

abort_multipart_upload(bucket, key, upload_id, outcome) ==
    [ok |-> outcome = "Ok",
     rpcs |-> << [bucket |-> bucket, key |-> key, outcome |-> outcome,
                  upload_id |-> upload_id, op |-> "abort_multipart_upload"] >>]

\* A Multipart arm of finish that completes the upload without the buffer.
Upload_finish_multipart_drops_tail(self, op, of) ==
    LET c == complete_multipart_upload(self.bucket, self.key,
                                       self.multipart_upload_id, self.parts, of)
    IN  [ok |-> c.ok, rpcs |-> c.rpcs]

\* A Multipart arm of finish that completes the upload without waiting for the
\* answer to its upload-part.
Upload_finish_multipart_no_wait(self, op, of) ==
    LET n     == IdGenerator_next(self.multipart_part_number_generator)
        p     == upload_part(self.bucket, self.key, self.multipart_upload_id,
                             n.value, self.current_buffer, op)
        tail  == self.current_buffer # << >>
        parts == IF tail THEN Append(self.parts, p.part) ELSE self.parts
        c     == complete_multipart_upload(self.bucket, self.key,
                                           self.multipart_upload_id, parts, of)
    IN  [ok |-> c.ok /\ (p.ok \/ ~tail),
         rpcs |-> (IF tail THEN p.rpcs ELSE << >>) \o c.rpcs]

\* Upload::finish, Multipart arm.
Upload_finish_multipart(self, op, of) ==
    LET n     == IdGenerator_next(self.multipart_part_number_generator)
        p     == upload_part(self.bucket, self.key, self.multipart_upload_id,
                             n.value, self.current_buffer, op)
        tail  == self.current_buffer # << >>
        parts == IF tail THEN Append(self.parts, p.part) ELSE self.parts
        c     == complete_multipart_upload(self.bucket, self.key,
                                           self.multipart_upload_id, parts, of)
    IN  IF tail /\ ~p.ok THEN Failed(p.rpcs)
        ELSE [ok |-> c.ok, rpcs |-> (IF tail THEN p.rpcs ELSE << >>) \o c.rpcs]

\* A finish that uploads nothing for a file that is empty.
Upload_finish_skips_empty(self, op, of) ==
    IF self.state = "Empty" THEN Failed(<< >>)
    ELSE IF self.state = "Regular"
    THEN IF self.current_buffer = << >> THEN [ok |-> TRUE, rpcs |-> << >>]
         ELSE LET r == put_object(self.bucket, self.key, self.current_buffer, of)
              IN  [ok |-> r.ok, rpcs |-> r.rpcs]
    ELSE Upload_finish_multipart(self, op, of)

\* A finish that also puts the object after it has completed a multipart upload.
Upload_finish_also_puts(self, op, of) ==
    IF self.state = "Empty" THEN Failed(<< >>)
    ELSE IF self.state = "Regular"
    THEN LET r == put_object(self.bucket, self.key, self.current_buffer, of)
         IN  [ok |-> r.ok, rpcs |-> r.rpcs]
    ELSE LET m == Upload_finish_multipart(self, op, of)
             r == put_object(self.bucket, self.key, self.current_buffer, "Ok")
         IN  IF m.ok THEN [ok |-> r.ok, rpcs |-> m.rpcs \o r.rpcs] ELSE m

\* Upload::finish(self); op and of are the object store's answers to the tail
\* upload-part and to the final put-object or complete-multipart-upload.
Upload_finish(self, op, of) ==
    IF self.state = "Empty" THEN Failed(<< >>)
    ELSE IF self.state = "Regular"
    THEN LET r == put_object(self.bucket, self.key, self.current_buffer, of)
         IN  [ok |-> r.ok, rpcs |-> r.rpcs]
    ELSE Upload_finish_multipart(self, op, of)

\* A destroy that leaves a multipart upload as it is.
Upload_destroy_forgets(self, oa) == [ok |-> TRUE, rpcs |-> << >>]

\* A destroy that uploads what a Regular upload has buffered.
Upload_destroy_puts(self, oa) ==
    IF self.state = "Multipart"
    THEN LET r == abort_multipart_upload(self.bucket, self.key,
                                         self.multipart_upload_id, oa)
         IN  [ok |-> r.ok, rpcs |-> r.rpcs]
    ELSE IF self.state = "Regular"
    THEN LET r == put_object(self.bucket, self.key, self.current_buffer, oa)
         IN  [ok |-> r.ok, rpcs |-> r.rpcs]
    ELSE [ok |-> TRUE, rpcs |-> << >>]

\* Upload::destroy(self); oa is the object store's answer to the abort.
Upload_destroy(self, oa) ==
    IF self.state = "Multipart"
    THEN LET r == abort_multipart_upload(self.bucket, self.key,
                                         self.multipart_upload_id, oa)
         IN  [ok |-> r.ok, rpcs |-> r.rpcs]
    ELSE [ok |-> TRUE, rpcs |-> << >>]

---------------------------------------------------------------------------
(* Node (src/src/s3_write_only_filesystem.rs).  std::mem::take leaves       *)
(* Upload::default(), which is Empty, in the node.                         *)

FileAttr(ino, size, kind, perm, nlink) ==
    [ino |-> ino, size |-> size, kind |-> kind, perm |-> perm, nlink |-> nlink]

Node_new(id, bucket, key) ==
    [key |-> key,
     upload |-> Upload_new(bucket, key),
     file_attr |-> FileAttr(id, 0, "RegularFile", 144, 1)]   \* perm 0o220

\* A write that leaves the upload as it was when Upload::write returned Err.
Node_write_keeps(node, data, oc, op, uid) ==
    LET r == Upload_write(node.upload, data, oc, op, uid)
    IN  [ok |-> r.ok, rpcs |-> r.rpcs,
         node |-> [node EXCEPT !.upload = IF r.ok THEN r.upload ELSE @]]

\* Node::write: the upload is put back only when Upload::write returned Ok.
Node_write(node, data, oc, op, uid) ==
    LET r == Upload_write(node.upload, data, oc, op, uid)
    IN  [ok |-> r.ok, rpcs |-> r.rpcs,
         node |-> [node EXCEPT !.upload = IF r.ok THEN r.upload ELSE Empty]]

\* A finish whose error is not passed on.
Node_finish_swallows(node, op, of) ==
    LET r == Upload_finish(node.upload, op, of)
    IN  [ok |-> TRUE, rpcs |-> r.rpcs, node |-> [node EXCEPT !.upload = Empty]]

Node_finish(node, op, of) ==
    LET r == Upload_finish(node.upload, op, of)
    IN  [ok |-> r.ok, rpcs |-> r.rpcs, node |-> [node EXCEPT !.upload = Empty]]

Node_destroy(node, oa) ==
    LET r == Upload_destroy(node.upload, oa)
    IN  [ok |-> r.ok, rpcs |-> r.rpcs, node |-> [node EXCEPT !.upload = Empty]]

---------------------------------------------------------------------------
(* The static files. *)

HELP_EN_CONTENTS == << "h", "e", "l", "p", " ", "e", "n" >>

HELP_DE_CONTENTS == << "h", "i", "l", "f", "e", " ", "d", "e", "!" >>

HELP_EN_FILEATTR ==
    FileAttr(HELP_EN_INODE, Len(HELP_EN_CONTENTS), "RegularFile", 420, 1)  \* 0o644

HELP_DE_FILEATTR ==
    FileAttr(HELP_DE_INODE, Len(HELP_DE_CONTENTS), "RegularFile", 420, 1)  \* 0o644

root_directory_fileattr ==
    FileAttr(ROOT_DIRECTORY_INODE, 0, "Directory", 493, 2)                 \* 0o755

---------------------------------------------------------------------------
(* BucketAndPrefix: the device string of a mount, "bucket[:prefix]". *)

\* A find that returns the position of the last character c.
rfind(s, c) ==
    IF \E i \in 1 .. Len(s) : s[i] = c
    THEN CHOOSE i \in 1 .. Len(s) : s[i] = c /\ \A j \in i + 1 .. Len(s) : s[j] # c
    ELSE 0

\* str::find: the position of the first character c of s, counted from 1; 0
\* stands for None.
find(s, c) ==
    IF \E i \in 1 .. Len(s) : s[i] = c
    THEN CHOOSE i \in 1 .. Len(s) : s[i] = c /\ \A j \in 1 .. i - 1 : s[j] # c
    ELSE 0

RECURSIVE trim_start_matches(_, _)
trim_start_matches(s, c) ==
    IF s # << >> /\ s[1] = c THEN trim_start_matches(Tail(s), c) ELSE s

RECURSIVE trim_end_matches(_, _)
trim_end_matches(s, c) ==
    IF s # << >> /\ s[Len(s)] = c
    THEN trim_end_matches(SubSeq(s, 1, Len(s) - 1), c)
    ELSE s

\* impl FromStr for BucketAndPrefix
BucketAndPrefix_from_str(d) ==
    LET index == find(d, ":")
    IN  IF index # 0
        THEN LET trimmed ==
                     trim_end_matches(
                         trim_start_matches(SubSeq(d, index + 1, Len(d)), "/"), "/")
             IN  [s3_bucket_name |-> SubSeq(d, 1, index - 1),
                  prefix_path |-> IF trimmed = << >> THEN None ELSE trimmed]
        ELSE [s3_bucket_name |-> d, prefix_path |-> None]

---------------------------------------------------------------------------
(* File names (OsStr).  A name is a sequence of characters; INVALID_BYTE    *)
(* stands for a byte that is part of no UTF-8 sequence.                     *)

INVALID_BYTE == "<FF>"

REPLACEMENT_CHARACTER == "<U+FFFD>"

\* OsStr::to_string_lossy: an invalid sequence becomes U+FFFD.
to_string_lossy(name) ==
    [i \in 1 .. Len(name) |->
        IF name[i] = INVALID_BYTE THEN REPLACEMENT_CHARACTER ELSE name[i]]

---------------------------------------------------------------------------
(* The requests the kernel sends. *)

Names == { << "a", INVALID_BYTE >>, HELP_EN_NAME }

LookupNames == Names \cup { HELP_DE_NAME }

Parents == { ROOT_DIRECTORY_INODE, HELP_EN_INODE }

\* The static inodes and every inode create can hand out within the bound; an
\* inode of the second kind is unknown before its create and after its release.
InodeArgs == STATIC_INODES \cup (FIRST_NODE_INODE .. FIRST_NODE_INODE + MaxCreates - 1)

Offsets == { 0, 2 }

\* The sizes a setattr proposes, each a sequence of no or of one length: no
\* size, or a truncation to 7 bytes.
SetattrSizes == { << >>, << 7 >> }

ReadRanges == { << 0, 4 >>, << 2, 100 >>, << 100, 4 >> }

WriteData ==
    { Bytes(97, 3),
      Bytes(98, MULTIPART_MINIMUM_PART_SIZE - 1),
      Bytes(99, MULTIPART_MINIMUM_PART_SIZE) }

\* The devices the handlers are exercised with: no prefix, and the prefix p/q.
MountDevices == { << "b" >>, << "b", ":", "/", "p", "/", "q", "/" >> }

DeviceChars == { "b", ":", "/" }

\* The threads that call next on one IdGenerator at the same time.
Callers == 1 .. MaxCallers

\* The start values the program constructs an IdGenerator with: 1 for the part
\* numbers of an upload and 10 for the inodes.
Starts == { 1, FIRST_NODE_INODE }

\* Every device string of at most MaxDeviceLen characters.
Devices == UNION { [1 .. n -> DeviceChars] : n \in 0 .. MaxDeviceLen }

Error(op, e) == [op |-> op, result |-> "error", errno |-> e]

---------------------------------------------------------------------------
(* The replies of the handlers that only read the state. *)

\* A lookup that also finds the files of the node table by the name they were
\* created under.
lookup_finds_created(parent, name) ==
    IF parent # ROOT_DIRECTORY_INODE THEN Error("lookup", ENOENT)
    ELSE IF name = HELP_EN_NAME
    THEN [op |-> "lookup", result |-> "entry",
          attr |-> HELP_EN_FILEATTR, generation |-> GENERATION]
    ELSE IF name = HELP_DE_NAME
    THEN [op |-> "lookup", result |-> "entry",
          attr |-> HELP_DE_FILEATTR, generation |-> GENERATION]
    ELSE IF \E i \in 1 .. Len(issued) : issued[i][2] = name /\ issued[i][1] \in DOMAIN nodes
    THEN LET i == CHOOSE i \in 1 .. Len(issued) :
                      issued[i][2] = name /\ issued[i][1] \in DOMAIN nodes
         IN  [op |-> "lookup", result |-> "entry",
              attr |-> nodes[issued[i][1]].file_attr, generation |-> GENERATION]
    ELSE Error("lookup", ENOENT)

\* S3WriteOnlyFilesystem::lookup
lookup(parent, name) ==
    IF parent # ROOT_DIRECTORY_INODE THEN Error("lookup", ENOENT)
    ELSE IF name = HELP_EN_NAME
    THEN [op |-> "lookup", result |-> "entry",
          attr |-> HELP_EN_FILEATTR, generation |-> GENERATION]
    ELSE IF name = HELP_DE_NAME
    THEN [op |-> "lookup", result |-> "entry",
          attr |-> HELP_DE_FILEATTR, generation |-> GENERATION]
    ELSE Error("lookup", ENOENT)

\* S3WriteOnlyFilesystem::getattr
getattr(ino) ==
    IF ino = ROOT_DIRECTORY_INODE
    THEN [op |-> "getattr", result |-> "attr",
          attr |-> root_directory_fileattr]
    ELSE IF ino = HELP_EN_INODE
    THEN [op |-> "getattr", result |-> "attr",
          attr |-> HELP_EN_FILEATTR]
    ELSE IF ino = HELP_DE_INODE
    THEN [op |-> "getattr", result |-> "attr",
          attr |-> HELP_DE_FILEATTR]
    ELSE IF ino \in DOMAIN nodes
    THEN [op |-> "getattr", result |-> "attr",
          attr |-> nodes[ino].file_attr]
    ELSE Error("getattr", ENOENT)

\* A setattr that takes over the size it is given.
setattr_applies_size(ino, size) ==
    IF ino \in DOMAIN nodes
    THEN [op |-> "setattr", result |-> "attr",
          attr |-> IF size = << >> THEN nodes[ino].file_attr
                   ELSE [nodes[ino].file_attr EXCEPT !.size = size[1]]]
    ELSE Error("setattr", ENOENT)

\* S3WriteOnlyFilesystem::setattr; size is the proposed _size, ignored like
\* every other proposed value.
setattr(ino, size) ==
    IF ino \in DOMAIN nodes
    THEN [op |-> "setattr", result |-> "attr",
          attr |-> nodes[ino].file_attr]
    ELSE Error("setattr", ENOENT)

\* S3WriteOnlyFilesystem::mkdir
mkdir(parent, name) == Error("mkdir", EACCES)

\* S3WriteOnlyFilesystem::open
open(ino) ==
    IF ino = ROOT_DIRECTORY_INODE THEN Error("open", ENOENT)
    ELSE IF ino \in STATIC_INODES \/ ino \in DOMAIN nodes
    THEN [op |-> "open", result |-> "opened", fh |-> ino]
    ELSE Error("open", ENOENT)

\* A read that serves what was written to a node of the table.
read_user_data(ino, offset, size) ==
    IF ino \in DOMAIN nodes
    THEN [op |-> "read", data |-> written[ino], result |-> "data"]
    ELSE Error("read", ENOENT)

\* S3WriteOnlyFilesystem::read, the help files.
read_help(ino, offset, size) ==
    LET contents == IF ino = HELP_EN_INODE THEN HELP_EN_CONTENTS ELSE HELP_DE_CONTENTS
        end      == Min(Len(contents), offset + size)
    IN  [op |-> "read",
         data |-> IF offset >= Len(contents) THEN << >>
                  ELSE Slice(contents, offset, end),
         result |-> "data"]

\* S3WriteOnlyFilesystem::read, every inode but the help files'.
read_other(ino, offset, size) == Error("read", ENOENT)

\* S3WriteOnlyFilesystem::read
read(ino, offset, size) ==
    IF ino \in {HELP_EN_INODE, HELP_DE_INODE}
    THEN read_help(ino, offset, size)
    ELSE read_other(ino, offset, size)

\* S3WriteOnlyFilesystem::flush
flush(ino) == [op |-> "flush", result |-> "ok"]

\* S3WriteOnlyFilesystem::opendir
opendir(ino) ==
    IF ino = ROOT_DIRECTORY_INODE
    THEN [op |-> "opendir", result |-> "opened",
          fh |-> ROOT_DIRECTORY_INODE]
    ELSE Error("opendir", EACCES)

DirEntry(ino, offset, kind, name) ==
    [ino |-> ino, kind |-> kind, name |-> name, offset |-> offset]

\* A directory listing that also lists the files created.
readdir_entries_with_nodes ==
    << DirEntry(ROOT_DIRECTORY_INODE, 0, "Directory", << "." >>),
       DirEntry(ROOT_DIRECTORY_INODE, 1, "Directory", << ".", "." >>),
       DirEntry(HELP_EN_INODE, 2, "RegularFile", HELP_EN_NAME),
       DirEntry(HELP_DE_INODE, 3, "RegularFile", HELP_DE_NAME) >>
    \o [i \in 1 .. Len(issued) |->
           DirEntry(issued[i][1], 3 + i, "RegularFile", issued[i][2])]

\* The entries readdir adds at offset 0.
readdir_entries ==
    << DirEntry(ROOT_DIRECTORY_INODE, 0, "Directory", << "." >>),
       DirEntry(ROOT_DIRECTORY_INODE, 1, "Directory", << ".", "." >>),
       DirEntry(HELP_EN_INODE, 2, "RegularFile", HELP_EN_NAME),
       DirEntry(HELP_DE_INODE, 3, "RegularFile", HELP_DE_NAME) >>

\* S3WriteOnlyFilesystem::readdir
readdir(ino, offset) ==
    IF ino # ROOT_DIRECTORY_INODE THEN Error("readdir", ENOENT)
    ELSE [op |-> "readdir", result |-> "ok",
          entries |-> IF offset = 0 THEN readdir_entries ELSE << >>]

---------------------------------------------------------------------------
(* The state after S3WriteOnlyFilesystem::new. *)

EmptyMap == [i \in {} |-> i]

Mount(devices) ==
    /\ device \in devices
    /\ s3_bucket = BucketAndPrefix_from_str(device).s3_bucket_name
    /\ s3_prefix_path = BucketAndPrefix_from_str(device).prefix_path
    /\ id_start = FIRST_NODE_INODE
    /\ id_generator = IdGenerator_new(id_start)
    /\ id_returned = [c \in Callers |-> << >>]
    /\ nodes = EmptyMap
    /\ dropped = FALSE
    /\ reply = [op |-> "none"]
    /\ rpc_log = EmptyMap
    /\ next_upload_id = 1
    /\ issued = << >>
    /\ written = EmptyMap
    /\ released = EmptyMap
    /\ n_writes = 0
    /\ n_failures = 0
    /\ rpc_under_lock = FALSE
    /\ write_failed = EmptyMap

Init == Mount(MountDevices)

InitMount == Mount(Devices)

\* The object store hands out a fresh upload id with every answered
\* create-multipart-upload that carries one.
UploadIdsHandedOut(rpcs) ==
    Cardinality({ i \in 1 .. Len(rpcs) :
                    rpcs[i].op = "create_multipart_upload" /\ rpcs[i].outcome = "Some" })

\* The calls among rpcs that failed or were answered without the field asked for.
Failures(rpcs) ==
    Cardinality({ i \in 1 .. Len(rpcs) : rpcs[i].outcome \notin {"Some", "Ok"} })

\* Some call among rpcs is one of ops.  An answer of the object store is an input
\* of a handler only when the handler made the call it answers; the answers to
\* calls that were not made are fixed, so that they are not counted as cases.
Asked(rpcs, ops) == \E i \in 1 .. Len(rpcs) : rpcs[i].op \in ops

---------------------------------------------------------------------------
(* The handlers that change the state. *)

\* A key without the separator between prefix and name.
object_key_no_separator(prefix, name) ==
    IF prefix # None THEN prefix \o name ELSE name

\* The key of a new file: [s3_prefix, filename].join("/") when a prefix is set.
object_key(prefix, name) ==
    IF prefix # None THEN prefix \o << "/" >> \o name ELSE name

\* An insert that leaves the map as it is.
HashMap_insert_drops(map, k, v) == map

\* HashMap::insert: the map with the entry of key k set to v.
HashMap_insert(map, k, v) == (k :> v) @@ map

\* S3WriteOnlyFilesystem::create
Create(parent, name) ==
    /\ ~dropped
    /\ IF parent # ROOT_DIRECTORY_INODE
       THEN /\ reply' = Error("create", ENOENT)
            /\ UNCHANGED << id_generator, nodes, rpc_log, issued, written >>
       ELSE /\ Len(issued) < MaxCreates
            /\ LET n    == IdGenerator_next(id_generator)
                   id   == n.value
                   node == Node_new(id, s3_bucket,
                                    object_key(s3_prefix_path, to_string_lossy(name)))
               IN  /\ id_generator' = n.gen
                   /\ reply' = [op |-> "create", result |-> "created", attr |-> node.file_attr,
                                generation |-> GENERATION, fh |-> id]
                   /\ nodes' = HashMap_insert(nodes, id, node)
                   /\ issued' = Append(issued, << id, name >>)
                   /\ rpc_log' = IF id \in DOMAIN rpc_log THEN rpc_log
                                 ELSE (id :> << >>) @@ rpc_log
                   /\ written' = IF id \in DOMAIN written THEN written
                                 ELSE (id :> << >>) @@ written
    /\ UNCHANGED << device, s3_bucket, s3_prefix_path, dropped, next_upload_id,
                    released, n_writes, n_failures, rpc_under_lock, id_start,
                    id_returned, write_failed >>

\* S3WriteOnlyFilesystem::write; the offset is ignored.
Write(ino, data, oc, op) ==
    /\ ~dropped
    /\ IF ino \in DOMAIN nodes
       THEN /\ n_writes < MaxWrites
            /\ LET r == Node_write(nodes[ino], data, oc, op, next_upload_id)
               IN  /\ Asked(r.rpcs, {"create_multipart_upload"}) \/ oc = "Some"
                   /\ Asked(r.rpcs, {"upload_part"}) \/ op = "Some"
                   /\ n_failures + Failures(r.rpcs) <= MaxFailures
                   /\ n_failures' = n_failures + Failures(r.rpcs)
                   /\ nodes' = [nodes EXCEPT ![ino] = r.node]
                   /\ rpc_log' = [rpc_log EXCEPT ![ino] = @ \o r.rpcs]
                   /\ next_upload_id' = next_upload_id + UploadIdsHandedOut(r.rpcs)
                   /\ reply' = IF r.ok
                               THEN [op |-> "write", size |-> ByteLen(data), result |-> "written"]
                               ELSE Error("write", EIO)
                   \* node.write runs inside the arm that binds the guard of nodes
                   /\ rpc_under_lock' = (rpc_under_lock \/ r.rpcs # << >>)
                   /\ write_failed' = IF r.ok \/ ino \in DOMAIN write_failed
                                      THEN write_failed
                                      ELSE (ino :> Len(rpc_log'[ino])) @@ write_failed
            /\ written' = [written EXCEPT ![ino] = extend_from_slice(@, data)]
            /\ n_writes' = n_writes + 1
       ELSE /\ oc = "Some" /\ op = "Some"
            /\ reply' = Error("write", ENOENT)
            /\ UNCHANGED << nodes, rpc_log, next_upload_id, written, n_writes,
                            n_failures, rpc_under_lock, write_failed >>
    /\ UNCHANGED << device, s3_bucket, s3_prefix_path, id_generator, dropped, issued,
                    released, id_start, id_returned >>

\* A remove that leaves the entry in the map.
HashMap_remove_keeps(map, k) == map

\* HashMap::remove: the map without the entry of key k.
HashMap_remove(map, k) == [i \in DOMAIN map \ {k} |-> map[i]]

\* S3WriteOnlyFilesystem::release
Release(ino, op, of) ==
    /\ ~dropped
    /\ IF ino \in STATIC_INODES
       THEN /\ op = "Some" /\ of = "Ok"
            /\ reply' = [op |-> "release", result |-> "ok"]
            /\ UNCHANGED << nodes, rpc_log, released, n_failures, rpc_under_lock >>
       ELSE IF ino \in DOMAIN nodes
       THEN LET r == Node_finish(nodes[ino], op, of)
            IN  /\ Asked(r.rpcs, {"upload_part"}) \/ op = "Some"
                /\ Asked(r.rpcs, {"put_object", "complete_multipart_upload"}) \/ of = "Ok"
                /\ n_failures + Failures(r.rpcs) <= MaxFailures
                /\ n_failures' = n_failures + Failures(r.rpcs)
                /\ nodes' = HashMap_remove(nodes, ino)
                /\ rpc_log' = [rpc_log EXCEPT ![ino] = @ \o r.rpcs]
                /\ reply' = IF r.ok
                            THEN [op |-> "release", result |-> "ok"]
                            ELSE Error("release", EIO)
                /\ released' = (ino :> (IF r.ok THEN "ok" ELSE EIO)) @@ released
                \* node.finish runs inside the arm that binds the guard of nodes
                /\ rpc_under_lock' = (rpc_under_lock \/ r.rpcs # << >>)
       ELSE /\ op = "Some" /\ of = "Ok"
            /\ reply' = Error("release", ENOENT)
            /\ UNCHANGED << nodes, rpc_log, released, n_failures, rpc_under_lock >>
    /\ UNCHANGED << device, s3_bucket, s3_prefix_path, id_generator, dropped,
                    next_upload_id, issued, written, n_writes, id_start, id_returned,
                    write_failed >>

\* impl Drop for S3WriteOnlyFilesystem: destroy every node of the table; an
\* error is logged and the loop goes on.  oa gives the object store's answer
\* to the abort of each node.
Drop(oa) ==
    /\ ~dropped
    /\ dropped' = TRUE
    /\ \A i \in DOMAIN nodes : Node_destroy(nodes[i], oa[i]).rpcs # << >> \/ oa[i] = "Ok"
    /\ LET failed == { i \in DOMAIN nodes : ~Node_destroy(nodes[i], oa[i]).ok }
       IN  /\ n_failures + Cardinality(failed) <= MaxFailures
           /\ n_failures' = n_failures + Cardinality(failed)
    /\ nodes' = [i \in DOMAIN nodes |-> Node_destroy(nodes[i], oa[i]).node]
    /\ rpc_log' = [i \in DOMAIN rpc_log |->
                     IF i \in DOMAIN nodes
                     THEN rpc_log[i] \o Node_destroy(nodes[i], oa[i]).rpcs
                     ELSE rpc_log[i]]
    /\ reply' = [op |-> "none"]
    \* node.destroy runs inside the arm that binds the guard of nodes
    /\ rpc_under_lock' = (rpc_under_lock \/ rpc_log' # rpc_log)
    /\ UNCHANGED << device, s3_bucket, s3_prefix_path, id_generator, next_upload_id,
                    issued, written, released, n_writes, id_start, id_returned,
                    write_failed >>

\* The handlers that only reply.
Reply(r) ==
    /\ ~dropped
    /\ reply' = r
    /\ UNCHANGED << device, s3_bucket, s3_prefix_path, id_generator, nodes, dropped,
                    rpc_log, next_upload_id, issued, written, released, n_writes,
                    n_failures, rpc_under_lock, id_start, id_returned, write_failed >>

Lookup(parent, name) == Reply(lookup(parent, name))

Getattr(ino) == Reply(getattr(ino))

Setattr(ino, size) == Reply(setattr(ino, size))

Mkdir(parent, name) == Reply(mkdir(parent, name))

Open(ino) == Reply(open(ino))

Read(ino, offset, size) == Reply(read(ino, offset, size))

Flush(ino) == Reply(flush(ino))

Opendir(ino) == Reply(opendir(ino))

Readdir(ino, offset) == Reply(readdir(ino, offset))

Next ==
    \/ \E parent \in Parents, name \in Names : Create(parent, name)
    \/ \E ino \in InodeArgs, data \in WriteData,
          oc \in OptionalOutcomes, op \in OptionalOutcomes : Write(ino, data, oc, op)
    \/ \E ino \in InodeArgs, op \in OptionalOutcomes, of \in PlainOutcomes :
          Release(ino, op, of)
    \/ \E oa \in [DOMAIN nodes -> PlainOutcomes] : Drop(oa)
    \/ \E parent \in Parents, name \in LookupNames : Lookup(parent, name)
    \/ \E ino \in InodeArgs : Getattr(ino)
    \/ \E ino \in InodeArgs, size \in SetattrSizes : Setattr(ino, size)
    \/ \E parent \in Parents, name \in Names : Mkdir(parent, name)
    \/ \E ino \in InodeArgs : Open(ino)
    \/ \E ino \in InodeArgs, range \in ReadRanges : Read(ino, range[1], range[2])
    \/ \E ino \in InodeArgs : Flush(ino)
    \/ \E ino \in InodeArgs : Opendir(ino)
    \/ \E ino \in InodeArgs, offset \in Offsets : Readdir(ino, offset)

Spec == Init /\ [][Next]_vars

\* The handlers that reach the object store.  The other handlers change no
\* variable but reply, so this specification reaches the same node tables,
\* request logs and histories as Spec.
NextUpload ==
    \/ \E parent \in Parents, name \in Names : Create(parent, name)
    \/ \E ino \in InodeArgs, data \in WriteData,
          oc \in OptionalOutcomes, op \in OptionalOutcomes : Write(ino, data, oc, op)
    \/ \E ino \in InodeArgs, op \in OptionalOutcomes, of \in PlainOutcomes :
          Release(ino, op, of)
    \/ \E oa \in [DOMAIN nodes -> PlainOutcomes] : Drop(oa)

SpecUpload == Init /\ [][NextUpload]_vars

\* The handlers that look a node up in the node table: those of NextUpload,
\* and getattr, setattr and open.
NextNode ==
    \/ \E parent \in Parents, name \in Names : Create(parent, name)
    \/ \E ino \in InodeArgs, data \in WriteData,
          oc \in OptionalOutcomes, op \in OptionalOutcomes : Write(ino, data, oc, op)
    \/ \E ino \in InodeArgs, op \in OptionalOutcomes, of \in PlainOutcomes :
          Release(ino, op, of)
    \/ \E oa \in [DOMAIN nodes -> PlainOutcomes] : Drop(oa)
    \/ \E ino \in InodeArgs : Getattr(ino)
    \/ \E ino \in InodeArgs, size \in SetattrSizes : Setattr(ino, size)
    \/ \E ino \in InodeArgs : Open(ino)

SpecNode == Init /\ [][NextNode]_vars

\* A caller's call of IdGenerator::next: fetch_add is one atomic step, so the
\* calls of concurrent callers take effect one after the other, in any order.
CallNext(c) ==
    /\ Len(id_returned[c]) < MaxCalls
    /\ LET n == IdGenerator_next(id_generator)
       IN  /\ id_generator' = n.gen
           /\ id_returned' = [id_returned EXCEPT ![c] = Append(@, n.value)]
    /\ UNCHANGED << device, s3_bucket, s3_prefix_path, nodes, dropped, reply, rpc_log,
                    next_upload_id, issued, written, released, n_writes, n_failures,
                    rpc_under_lock, id_start, write_failed >>

\* An IdGenerator of either start value, shared by the callers.
InitIdGenerator ==
    /\ id_start \in Starts
    /\ id_generator = IdGenerator_new(id_start)
    /\ id_returned = [c \in Callers |-> << >>]
    /\ device = << "b" >>
    /\ s3_bucket = BucketAndPrefix_from_str(device).s3_bucket_name
    /\ s3_prefix_path = BucketAndPrefix_from_str(device).prefix_path
    /\ nodes = EmptyMap
    /\ dropped = FALSE
    /\ reply = [op |-> "none"]
    /\ rpc_log = EmptyMap
    /\ next_upload_id = 1
    /\ issued = << >>
    /\ written = EmptyMap
    /\ released = EmptyMap
    /\ n_writes = 0
    /\ n_failures = 0
    /\ rpc_under_lock = FALSE
    /\ write_failed = EmptyMap

NextIdGenerator == \E c \in Callers : CallNext(c)

SpecIdGenerator == InitIdGenerator /\ [][NextIdGenerator]_vars

\* Mounts with every device string, and the creates that compose keys.
NextMount == \E parent \in Parents, name \in Names : Create(parent, name)

SpecMount == InitMount /\ [][NextMount]_vars

---------------------------------------------------------------------------
(* What the object store holds for a file, read off the requests it received. *)

Files == DOMAIN rpc_log

\* The requests of a log with one of the given operations, in the order received.
Requests(log, ops) == SelectSeq(log, LAMBDA r : r.op \in ops)

UploadParts(log) == Requests(log, {"upload_part"})

Promoted(log) == Requests(log, {"create_multipart_upload"}) # << >>

\* The upload ids the object store handed out for a file.
UploadIds(log) ==
    { r.upload_id : r \in { log[i] : i \in { j \in 1 .. Len(log) :
          log[j].op = "create_multipart_upload" /\ log[j].outcome = "Some" } } }

Ended(log, upload_id) ==
    \E i \in 1 .. Len(log) :
        /\ log[i].op \in {"complete_multipart_upload", "abort_multipart_upload"}
        /\ log[i].upload_id = upload_id

RECURSIVE ConcatBodies(_)
ConcatBodies(rs) ==
    IF rs = << >> THEN << >>
    ELSE extend_from_slice(rs[1].body, ConcatBodies(Tail(rs)))

\* The bodies of the parts numbered from .. to, in part-number order.
RECURSIVE PartsBody(_, _, _)
PartsBody(log, from, to) ==
    IF from > to THEN << >>
    ELSE extend_from_slice(
             ConcatBodies(SelectSeq(UploadParts(log), LAMBDA r : r.part_number = from)),
             PartsBody(log, from + 1, to))

MaxPartNumber(log) ==
    LET ns == { UploadParts(log)[i].part_number : i \in 1 .. Len(UploadParts(log)) }
    IN  IF ns = {} THEN 0 ELSE CHOOSE n \in ns : \A m \in ns : m <= n

\* The body of the object a file was uploaded as.
ObjectBody(log) ==
    IF Promoted(log) THEN PartsBody(log, 1, MaxPartNumber(log))
    ELSE ConcatBodies(Requests(log, {"put_object"}))

\* The requests a step added to the log of a file.
NewRequests(ino) == SubSeq(rpc_log'[ino], Len(rpc_log[ino]) + 1, Len(rpc_log'[ino]))

---------------------------------------------------------------------------
(* The claims. *)

\* C1: round-trip bytes.  Whenever the release of a file replied ok, the body of
\* the object it was uploaded as (the body of the one put-object when the file
\* was never promoted, else the bodies of its uploaded parts in part-number
\* order, handed to a complete-multipart-upload) is the concatenation of all
\* the data passed to write for it.
C1_RoundTrip ==
    \A ino \in DOMAIN released :
        released[ino] = "ok" =>
            /\ ObjectBody(rpc_log[ino]) = written[ino]
            /\ IF Promoted(rpc_log[ino])
               THEN /\ Requests(rpc_log[ino], {"put_object"}) = << >>
                    /\ Len(Requests(rpc_log[ino], {"complete_multipart_upload"})) = 1
               ELSE Len(rpc_log[ino]) = 1

\* A file of two writes was uploaded in two parts and released ok.
C1_Witness ==
    \E ino \in DOMAIN released :
        /\ released[ino] = "ok"
        /\ Len(UploadParts(rpc_log[ino])) = 2
        /\ Len(written[ino]) = 2
        /\ ObjectBody(rpc_log[ino]) = written[ino]

\* C2: no multipart upload is leaked.  Once the dispatcher has been dropped,
\* every upload id the object store handed out has had a
\* complete-multipart-upload or an abort-multipart-upload issued for it.
C2_NoLeak ==
    dropped =>
        \A ino \in Files : \A id \in UploadIds(rpc_log[ino]) : Ended(rpc_log[ino], id)

\* C3: when the dispatcher is dropped, each node of the table whose upload is
\* Multipart gets exactly one request, an abort-multipart-upload with the
\* upload id of that node (so no complete-multipart-upload).
C3_DropAborts ==
    [][ (~dropped /\ dropped') =>
          \A ino \in DOMAIN nodes :
              nodes[ino].upload.state = "Multipart" =>
                  /\ Len(NewRequests(ino)) = 1
                  /\ NewRequests(ino)[1].op = "abort_multipart_upload"
                  /\ NewRequests(ino)[1].upload_id = nodes[ino].upload.multipart_upload_id
                  /\ NewRequests(ino)[1].upload_id \in UploadIds(rpc_log[ino]) ]_vars

\* The dispatcher was dropped with two Multipart nodes and aborted both uploads.
C3_Witness ==
    /\ dropped
    /\ \E i, j \in DOMAIN nodes :
          /\ i # j
          /\ \A k \in {i, j} :
                /\ rpc_log[k] # << >>
                /\ rpc_log[k][Len(rpc_log[k])].op = "abort_multipart_upload"
          /\ rpc_log[i][Len(rpc_log[i])].upload_id # rpc_log[j][Len(rpc_log[j])].upload_id

\* C4: promotion boundary.  A node whose upload is Regular and which has been
\* passed fewer than 5 MiB in all has caused no request to the object store
\* (its node is in the table, so finish has not been called).
C4_PromotionBoundary ==
    \A ino \in DOMAIN nodes :
        ( /\ nodes[ino].upload.state = "Regular"
          /\ ByteLen(written[ino]) < 5 * 1024 * 1024 )
        => rpc_log[ino] = << >>

\* A Regular node holds one byte less than 5 MiB and has caused no request.
C4_Witness ==
    \E ino \in DOMAIN nodes :
        /\ nodes[ino].upload.state = "Regular"
        /\ ByteLen(written[ino]) = 5 * 1024 * 1024 - 1
        /\ rpc_log[ino] = << >>

\* C5: monotone parts.  The part numbers of the upload-part requests of a file
\* are 1, 2, 3, ... in the order issued, and the parts list of every
\* complete-multipart-upload is in strictly ascending part-number order.
C5_MonotoneParts ==
    \A ino \in Files :
        /\ \A i \in 1 .. Len(UploadParts(rpc_log[ino])) :
              UploadParts(rpc_log[ino])[i].part_number = i
        /\ \A r \in { rpc_log[ino][i] : i \in { j \in 1 .. Len(rpc_log[ino]) :
                        rpc_log[ino][j].op = "complete_multipart_upload" } } :
              \A i, j \in 1 .. Len(r.parts) :
                  i < j => r.parts[i].part_number < r.parts[j].part_number

\* A file was completed with the parts 1 and 2.
C5_Witness ==
    \E ino \in Files :
        /\ Len(UploadParts(rpc_log[ino])) = 2
        /\ \E i \in 1 .. Len(rpc_log[ino]) :
              /\ rpc_log[ino][i].op = "complete_multipart_upload"
              /\ Len(rpc_log[ino][i].parts) = 2

\* C6: inode uniqueness.  Every inode create handed out is at least 10, is none
\* of the static inodes and differs from every inode handed out before, also
\* after releases; every node of the table is filed under its own inode, which
\* create handed out exactly once.
C6_InodeUniqueness ==
    /\ \A i \in 1 .. Len(issued) :
          /\ issued[i][1] >= 10
          /\ issued[i][1] \notin {1, 2, 3}
          /\ \A j \in 1 .. Len(issued) : i # j => issued[i][1] # issued[j][1]
    /\ \A ino \in DOMAIN nodes :
          /\ nodes[ino].file_attr.ino = ino
          /\ Cardinality({ i \in 1 .. Len(issued) : issued[i][1] = ino }) = 1
    /\ (reply.op = "create" /\ reply.result = "created") =>
          /\ reply.fh = issued[Len(issued)][1]
          /\ reply.attr.ino = reply.fh

\* A second file was created after the first was released.
C6_Witness ==
    /\ Len(issued) = 2
    /\ issued[1][1] \in DOMAIN released
    /\ issued[2][1] \in DOMAIN nodes
    /\ reply.op = "create"

\* C7, as claimed: for every file created under the root, whatever its name,
\* lookup(root, name) replies ENOENT.
C7_LookupAnyName ==
    \A i \in 1 .. Len(issued) :
        lookup(ROOT_DIRECTORY_INODE, issued[i][2]) = Error("lookup", ENOENT)

\* C7, amended: for every file created under the root, lookup(root, name)
\* replies ENOENT unless the name is the name of a help file; then it replies
\* with the entry of that help file (inode 2 or 3), never with the inode of the
\* file created.  No lookup ever replies with an inode that create handed out.
C7_LookupWriteOnly ==
    /\ \A i \in 1 .. Len(issued) :
          LET r == lookup(ROOT_DIRECTORY_INODE, issued[i][2])
          IN  IF issued[i][2] \notin {HELP_EN_NAME, HELP_DE_NAME}
              THEN r.result = "error" /\ r.errno = ENOENT
              ELSE /\ r.result = "entry"
                   /\ r.attr.ino = (IF issued[i][2] = HELP_EN_NAME THEN 2 ELSE 3)
                   /\ r.attr.ino # issued[i][1]
    /\ (reply.op = "lookup" /\ reply.result = "entry") =>
          \A i \in 1 .. Len(issued) : reply.attr.ino # issued[i][1]

\* A file was created under a name of its own, bytes were written to it, and
\* the lookup of its name replied ENOENT.
C7_Witness ==
    /\ \E i \in 1 .. Len(issued) :
          /\ issued[i][2] \notin {HELP_EN_NAME, HELP_DE_NAME}
          /\ issued[i][1] \in DOMAIN nodes
          /\ written[issued[i][1]] # << >>
          /\ reply = lookup(ROOT_DIRECTORY_INODE, issued[i][2])
    /\ reply.op = "lookup"
    /\ reply.result = "error"

\* C8: no phantom directory entries.  In every state readdir(root, 0) replies ok
\* with the four entries ".", "..", help-EN (inode 2), help-DE (inode 3);
\* readdir(root, offset) with another offset replies ok with no entry; readdir
\* of another inode replies ENOENT.  No reply of readdir names an inode that
\* create handed out.
C8_Readdir ==
    /\ LET r == readdir(1, 0)
       IN  /\ r.result = "ok"
           /\ [i \in 1 .. Len(r.entries) |-> << r.entries[i].ino, r.entries[i].name >>]
                = << << 1, << "." >> >>, << 1, << ".", "." >> >>,
                     << 2, HELP_EN_NAME >>, << 3, HELP_DE_NAME >> >>
    /\ \A offset \in Offsets \ {0} :
          readdir(1, offset).result = "ok" /\ readdir(1, offset).entries = << >>
    /\ \A ino \in InodeArgs \ {1}, offset \in Offsets :
          readdir(ino, offset) = Error("readdir", ENOENT)
    /\ (reply.op = "readdir" /\ reply.result = "ok") =>
          /\ Len(reply.entries) \in {0, 4}
          /\ \A i \in 1 .. Len(reply.entries), j \in 1 .. Len(issued) :
                reply.entries[i].ino # issued[j][1]

\* Two files were created, one of them written to and one released, and
\* readdir(root, 0) replied with four entries.
C8_Witness ==
    /\ Len(issued) = 2
    /\ \E ino \in DOMAIN nodes : written[ino] # << >>
    /\ DOMAIN released # {}
    /\ reply.op = "readdir"
    /\ reply.result = "ok"
    /\ Len(reply.entries) = 4

\* C9: written data is never readable.  In every state read of an inode other
\* than 2 and 3 replies ENOENT, also for a node of the table that has buffered or
\* uploaded bytes; the data of every reply of read is a slice of the contents of
\* a help file.
C9_ReadOnlyHelp ==
    /\ \A ino \in InodeArgs \ {2, 3}, range \in ReadRanges :
          read(ino, range[1], range[2]) = Error("read", ENOENT)
    /\ (reply.op = "read" /\ reply.result = "data") =>
          \E contents \in {HELP_EN_CONTENTS, HELP_DE_CONTENTS} :
              \E from \in 0 .. Len(contents), to \in 0 .. Len(contents) :
                  reply.data = SubSeq(contents, from + 1, to)

\* A node holds buffered bytes, another has uploaded a part, and a read replied
\* ENOENT.
C9_Witness ==
    /\ \E i, j \in DOMAIN nodes :
          /\ nodes[i].upload.state = "Regular"
          /\ nodes[i].upload.current_buffer # << >>
          /\ nodes[j].upload.state = "Multipart"
          /\ nodes[j].upload.parts # << >>
    /\ reply = Error("read", ENOENT)

\* C10: a release of a node whose upload is Regular issues exactly one request
\* for the file over its whole life, a put-object whose body is the buffer, all
\* that was written; for a file released right after its create the body is
\* empty.
C10_RegularRelease ==
    [][ \A ino \in DOMAIN nodes :
          ( /\ nodes[ino].upload.state = "Regular"
            /\ ino \notin DOMAIN nodes' )
          => /\ Len(rpc_log'[ino]) = 1
             /\ rpc_log'[ino][1].op = "put_object"
             /\ rpc_log'[ino][1].body = nodes[ino].upload.current_buffer
             /\ rpc_log'[ino][1].body = written[ino]
             /\ ByteLen(rpc_log'[ino][1].body) < 5 * 1024 * 1024 ]_vars

\* A file was released right after its create, with one put-object of no byte;
\* another was released after two writes, with one put-object of all its bytes.
C10_Witness ==
    \E i, j \in DOMAIN released :
        /\ written[i] = << >>
        /\ Len(rpc_log[i]) = 1
        /\ rpc_log[i][1].op = "put_object"
        /\ rpc_log[i][1].body = << >>
        /\ ByteLen(written[j]) = 6
        /\ Len(rpc_log[j]) = 1
        /\ rpc_log[j][1].op = "put_object"
        /\ rpc_log[j][1].body = written[j]

\* The part numbers of the upload-part requests of a log that were answered
\* with an e_tag, in the order sent.
AckedPartNumbers(log) ==
    LET acked == SelectSeq(UploadParts(log), LAMBDA r : r.outcome = "Some")
    IN  [i \in 1 .. Len(acked) |-> acked[i].part_number]

PartNumbers(parts) == [i \in 1 .. Len(parts) |-> parts[i].part_number]

\* C11: the release of a node whose upload is Multipart sends no put-object.
\* With a buffer that is not empty it sends one upload-part with the buffer as
\* body, whatever its size, under the number after the last part; when that
\* part is acknowledged it then sends complete-multipart-upload with all the
\* acknowledged parts, else nothing more.  With an empty buffer it sends
\* complete-multipart-upload with the parts it has and no upload-part.
C11_MultipartFinish ==
    [][ \A ino \in DOMAIN nodes :
          ( /\ nodes[ino].upload.state = "Multipart"
            /\ ino \notin DOMAIN nodes'
            /\ ~dropped' )
          => LET u    == nodes[ino].upload
                 new  == NewRequests(ino)
                 last == new[Len(new)]
             IN  /\ \A i \in 1 .. Len(new) : new[i].op # "put_object"
                 /\ IF u.current_buffer # << >>
                    THEN /\ new[1].op = "upload_part"
                         /\ new[1].body = u.current_buffer
                         /\ new[1].part_number = Len(UploadParts(rpc_log[ino])) + 1
                         /\ new[1].upload_id = u.multipart_upload_id
                         /\ Len(new) = (IF new[1].outcome = "Some" THEN 2 ELSE 1)
                    ELSE Len(new) = 1
                 /\ (u.current_buffer = << >> \/ new[1].outcome = "Some") =>
                       /\ last.op = "complete_multipart_upload"
                       /\ last.upload_id = u.multipart_upload_id
                       /\ PartNumbers(last.parts) = AckedPartNumbers(rpc_log'[ino])
                       /\ \A i \in 1 .. Len(last.parts) :
                             last.parts[i].e_tag =
                                 ETag(u.multipart_upload_id, last.parts[i].part_number) ]_vars

\* A file was released with three bytes in the buffer of its multipart upload:
\* they went out as part 2, and the upload was completed with parts 1 and 2.
C11_Witness ==
    \E ino \in DOMAIN released :
        /\ Len(rpc_log[ino]) = 4
        /\ rpc_log[ino][3].op = "upload_part"
        /\ rpc_log[ino][3].part_number = 2
        /\ ByteLen(rpc_log[ino][3].body) = 3
        /\ rpc_log[ino][4].op = "complete_multipart_upload"
        /\ PartNumbers(rpc_log[ino][4].parts) = << 1, 2 >>

\* C12: a write for an inode that is not in the node table (never created,
\* released, or static) replies ENOENT and changes nothing.  A write for a node
\* of the table sends at most one create-multipart-upload and at most one
\* upload-part, and nothing after a call that was not answered as asked (no
\* retry); it replies EIO when one of its calls was not, and written with the
\* length of the data otherwise.
C12_WriteReplies ==
    [][ \A ino \in InodeArgs, data \in WriteData,
           oc \in OptionalOutcomes, op \in OptionalOutcomes :
          Write(ino, data, oc, op) =>
              IF ino \notin DOMAIN nodes
              THEN /\ reply'.result = "error"
                   /\ reply'.errno = ENOENT
                   /\ UNCHANGED << nodes, rpc_log, written >>
              ELSE LET new == NewRequests(ino)
                   IN  /\ Len(Requests(new, {"create_multipart_upload"})) <= 1
                       /\ Len(Requests(new, {"upload_part"})) <= 1
                       /\ Len(new) <= 2
                       /\ \A i \in 1 .. Len(new) - 1 : new[i].outcome = "Some"
                       /\ IF \E i \in 1 .. Len(new) : new[i].outcome # "Some"
                          THEN reply'.result = "error" /\ reply'.errno = EIO
                          ELSE /\ reply'.result = "written"
                               /\ reply'.size = ByteLen(data) ]_vars

\* A write replied EIO after its upload-part failed; the part was sent once.
C12_Witness ==
    /\ reply.op = "write"
    /\ reply.result = "error"
    /\ reply.errno = EIO
    /\ \E ino \in DOMAIN nodes :
          /\ Len(rpc_log[ino]) = 2
          /\ rpc_log[ino][2].op = "upload_part"
          /\ rpc_log[ino][2].outcome = "Err"

\* C13: a release of a static inode (1, 2, 3) replies ok and changes nothing.  A
\* release of an inode of the node table removes that node and no other, and
\* replies ok when finish succeeded (its last request, a put-object or a
\* complete-multipart-upload, was answered Ok) and EIO when it did not.  A
\* release of any other inode replies ENOENT and changes nothing.
C13_ReleaseReplies ==
    [][ \A ino \in InodeArgs, op \in OptionalOutcomes, of \in PlainOutcomes :
          Release(ino, op, of) =>
              IF ino \in {1, 2, 3}
              THEN /\ reply'.result = "ok"
                   /\ UNCHANGED << nodes, rpc_log, released, written, issued >>
              ELSE IF ino \in DOMAIN nodes
              THEN LET new == NewRequests(ino)
                       finished ==
                           /\ new # << >>
                           /\ new[Len(new)].op \in {"put_object", "complete_multipart_upload"}
                           /\ new[Len(new)].outcome = "Ok"
                   IN  /\ DOMAIN nodes' = DOMAIN nodes \ {ino}
                       /\ \A other \in DOMAIN nodes' : nodes'[other] = nodes[other]
                       /\ IF finished
                          THEN reply'.result = "ok"
                          ELSE reply'.result = "error" /\ reply'.errno = EIO
              ELSE /\ reply'.result = "error"
                   /\ reply'.errno = ENOENT
                   /\ UNCHANGED << nodes, rpc_log, released, written, issued >> ]_vars

\* One file was released with the reply ok, another with the reply EIO after
\* its put-object failed.
C13_Witness ==
    /\ reply.op = "release"
    /\ \E i, j \in DOMAIN released :
          /\ released[i] = "ok"
          /\ released[j] = EIO
          /\ rpc_log[j] # << >>
          /\ rpc_log[j][Len(rpc_log[j])].outcome = "Err"
          /\ DOMAIN nodes = {}

\* C14: the bucket of a mount is the text of the device before its first ":",
\* the whole device when it has none.  The prefix is the text after that ":"
\* without its leading and its trailing "/" characters, the characters between
\* kept as they are; there is no prefix exactly when nothing is left.
C14_MountTarget ==
    LET colons == { i \in 1 .. Len(device) : device[i] = ":" }
    IN  IF colons = {}
        THEN s3_bucket = device /\ s3_prefix_path = None
        ELSE LET first == CHOOSE i \in colons : \A j \in colons : i <= j
                 rest  == SubSeq(device, first + 1, Len(device))
             IN  /\ s3_bucket = SubSeq(device, 1, first - 1)
                 /\ \E a \in 0 .. Len(rest), b \in 0 .. Len(rest) :
                       /\ a + b <= Len(rest)
                       /\ \A i \in 1 .. a : rest[i] = "/"
                       /\ \A i \in Len(rest) - b + 1 .. Len(rest) : rest[i] = "/"
                       /\ LET core == SubSeq(rest, a + 1, Len(rest) - b)
                          IN  IF core = << >>
                              THEN s3_prefix_path = None
                              ELSE /\ core[1] # "/"
                                   /\ core[Len(core)] # "/"
                                   /\ s3_prefix_path # None
                                   /\ s3_prefix_path = core

\* The device b:/b//b/ was mounted with the bucket b and the prefix b//b, and a
\* file was created under it.
C14_Witness ==
    /\ device = << "b", ":", "/", "b", "/", "/", "b", "/" >>
    /\ s3_bucket = << "b" >>
    /\ s3_prefix_path # None
    /\ s3_prefix_path = << "b", "/", "/", "b" >>
    /\ DOMAIN nodes # {}

\* The name a file was created under.
NameOf(ino) == issued[CHOOSE i \in 1 .. Len(issued) : issued[i][1] = ino][2]

\* Every request sent for a file carries the bucket of the mount and the key k,
\* and so do its node and its upload while they are there.
KeyIs(ino, k) ==
    /\ \A i \in 1 .. Len(rpc_log[ino]) :
          rpc_log[ino][i].bucket = s3_bucket /\ rpc_log[ino][i].key = k
    /\ ino \in DOMAIN nodes =>
          /\ nodes[ino].key = k
          /\ nodes[ino].upload.state # "Empty" =>
                nodes[ino].upload.bucket = s3_bucket /\ nodes[ino].upload.key = k

\* C15, as claimed: every request for a created file uses the bucket of the
\* mount and the key prefix + "/" + name when a prefix is set, and exactly name
\* when none is, from its create on.
C15_KeyIsName ==
    \A ino \in Files :
        KeyIs(ino, IF s3_prefix_path # None
                   THEN s3_prefix_path \o << "/" >> \o NameOf(ino)
                   ELSE NameOf(ino))

\* The name of a file as text: every byte of it that is not valid UTF-8 is the
\* replacement character U+FFFD.
AsText(name) ==
    [i \in 1 .. Len(name) |->
        IF name[i] = INVALID_BYTE THEN REPLACEMENT_CHARACTER ELSE name[i]]

\* C15, amended: every request for a created file uses the bucket of the mount
\* and the key prefix + "/" + text when a prefix is set, and exactly text when
\* none is, where text is the name with every invalid UTF-8 sequence replaced
\* by U+FFFD (the name itself when it is valid UTF-8); the key is the same from
\* the create of the file on.
C15_KeyComposition ==
    \A ino \in Files :
        /\ KeyIs(ino, IF s3_prefix_path # None
                      THEN s3_prefix_path \o << "/" >> \o AsText(NameOf(ino))
                      ELSE AsText(NameOf(ino)))
        /\ AsText(HELP_EN_NAME) = HELP_EN_NAME

\* Under the prefix p/q a file of a valid name was uploaded in parts with the
\* key p/q/name; the other file has a name that is not valid UTF-8.
C15_Witness ==
    /\ s3_prefix_path # None
    /\ s3_prefix_path = << "p", "/", "q" >>
    /\ \E i, j \in Files :
          /\ NameOf(i) = HELP_EN_NAME
          /\ Len(rpc_log[i]) >= 3
          /\ \A n \in 1 .. Len(rpc_log[i]) :
                rpc_log[i][n].key = << "p", "/", "q", "/" >> \o HELP_EN_NAME
          /\ NameOf(j) = << "a", INVALID_BYTE >>

\* C16: the promotion step.  When a write takes the bytes of a node whose
\* upload is Regular to 5 MiB or more, it sends create-multipart-upload first.
\* When that is answered with an upload id it sends one upload-part under that
\* id, with part number 1 and all the bytes written so far, those of this
\* write included, as body; when that is answered with an e_tag the upload is
\* Multipart with an empty buffer and the one part 1, and the write replies
\* written.  A call that fails or is answered without its upload id or e_tag
\* ends the write with the reply EIO.
C16_PromotionStep ==
    [][ \A ino \in DOMAIN nodes :
          ( /\ nodes[ino].upload.state = "Regular"
            /\ n_writes' = n_writes + 1
            /\ written'[ino] # written[ino]
            /\ ByteLen(written'[ino]) >= 5 * 1024 * 1024 )
          => LET new == NewRequests(ino)
                 u   == nodes'[ino].upload
             IN  /\ new # << >>
                 /\ new[1].op = "create_multipart_upload"
                 /\ IF new[1].outcome # "Some"
                    THEN Len(new) = 1 /\ reply'.result = "error" /\ reply'.errno = EIO
                    ELSE /\ Len(new) = 2
                         /\ new[2].op = "upload_part"
                         /\ new[2].upload_id = new[1].upload_id
                         /\ new[2].part_number = 1
                         /\ new[2].body = written'[ino]
                         /\ IF new[2].outcome # "Some"
                            THEN reply'.result = "error" /\ reply'.errno = EIO
                            ELSE /\ reply'.result = "written"
                                 /\ u.state = "Multipart"
                                 /\ u.current_buffer = << >>
                                 /\ u.multipart_upload_id = new[1].upload_id
                                 /\ PartNumbers(u.parts) = << 1 >>
                                 /\ u.parts[1].e_tag = ETag(new[1].upload_id, 1) ]_vars

\* A second write took a file past 5 MiB: the bytes of both writes went out as
\* part 1, and the upload is Multipart with an empty buffer and one part.
C16_Witness ==
    /\ reply.op = "write"
    /\ reply.result = "written"
    /\ \E ino \in DOMAIN nodes :
          /\ nodes[ino].upload.state = "Multipart"
          /\ nodes[ino].upload.current_buffer = << >>
          /\ Len(nodes[ino].upload.parts) = 1
          /\ Len(written[ino]) = 2
          /\ Len(rpc_log[ino]) = 2
          /\ rpc_log[ino][2].body = written[ino]

\* C17: no request is sent to the object store while the guard of the mutex of
\* the node table is alive.
C17_NoRpcUnderLock == ~rpc_under_lock

\* C18: as long as the dispatcher has not been dropped, no node of the table
\* holds an upload that is Empty.
C18_EmptyOnlyTransient ==
    ~dropped => \A ino \in DOMAIN nodes : nodes[ino].upload.state # "Empty"

\* The bytes a node's upload holds: those of its acknowledged parts, in the
\* order sent, and then those of its buffer.
HeldBytes(ino) ==
    extend_from_slice(
        ConcatBodies(SelectSeq(UploadParts(rpc_log[ino]), LAMBDA r : r.outcome = "Some")),
        IF nodes[ino].upload.state = "Empty" THEN << >>
        ELSE nodes[ino].upload.current_buffer)

\* C19: no acknowledged write is dropped.  Whenever a write for a node replies
\* written, the bytes the node's upload holds after it are those it held
\* before followed by the data of the write.
C19_AckedWriteKept ==
    [][ \A ino \in DOMAIN nodes :
          ( /\ n_writes' = n_writes + 1
            /\ written'[ino] # written[ino]
            /\ reply'.result = "written" )
          => \E data \in WriteData :
                /\ written'[ino] = extend_from_slice(written[ino], data)
                /\ HeldBytes(ino)' = extend_from_slice(HeldBytes(ino), data) ]_vars

\* C20: the buffer of an upload that is Regular is shorter than 5 MiB in every
\* state.
C20_RegularBuffer ==
    \A ino \in DOMAIN nodes :
        nodes[ino].upload.state = "Regular" =>
            ByteLen(nodes[ino].upload.current_buffer) < 5 * 1024 * 1024

\* A write left one byte less than 5 MiB in the buffer of a Regular upload, and
\* another file went to Multipart with a write of exactly 5 MiB.
C20_Witness ==
    \E i, j \in DOMAIN nodes :
        /\ nodes[i].upload.state = "Regular"
        /\ ByteLen(nodes[i].upload.current_buffer) = 5 * 1024 * 1024 - 1
        /\ nodes[j].upload.state = "Multipart"
        /\ ByteLen(written[j]) = 5 * 1024 * 1024

\* The bytes a node's upload has in its buffer; an Empty upload has none.
Buffered(node) ==
    IF node.upload.state = "Empty" THEN 0 ELSE ByteLen(node.upload.current_buffer)

\* C21: bounded buffering.  After every write the buffer of the node's upload,
\* Regular or Multipart, is shorter than 5 MiB, so the most a write ever holds
\* (the buffer it found followed by its data) is at most 5 MiB - 1 plus the
\* length of its data, however many bytes the file has been passed in all.
C21_BoundedBuffer ==
    [][ \A ino \in DOMAIN nodes :
          ( /\ n_writes' = n_writes + 1
            /\ written'[ino] # written[ino] )
          => LET len  == ByteLen(written'[ino]) - ByteLen(written[ino])
                 peak == Buffered(nodes[ino]) + len
             IN  /\ Buffered(nodes'[ino]) < 5 * 1024 * 1024
                 /\ peak <= (5 * 1024 * 1024 - 1) + len
                 /\ nodes'[ino].upload.state # "Empty" =>
                       Buffered(nodes'[ino]) \in {0, peak} ]_vars

\* A file that has been passed 10 MiB - 1 in all holds 5 MiB - 1 in the buffer
\* of its multipart upload after a write.
C21_Witness ==
    /\ reply.op = "write"
    /\ reply.result = "written"
    /\ \E ino \in DOMAIN nodes :
          /\ nodes[ino].upload.state = "Multipart"
          /\ ByteLen(nodes[ino].upload.current_buffer) = 5 * 1024 * 1024 - 1
          /\ ByteLen(written[ino]) = 10 * 1024 * 1024 - 1

\* C22: an upload is terminal after finish.  Once the release of an inode has
\* run finish, with or without success, the inode is not in the node table and
\* stays out of it; getattr, setattr and open of it reply ENOENT, every later
\* write and release for it replies ENOENT and changes nothing, and no step
\* sends another request for its file.
C22_TerminalAfterFinish ==
    [][ \A ino \in DOMAIN released :
          /\ ino \notin DOMAIN nodes
          /\ ino \notin DOMAIN nodes'
          /\ rpc_log'[ino] = rpc_log[ino]
          /\ getattr(ino) = Error("getattr", ENOENT)
          /\ \A size \in SetattrSizes : setattr(ino, size) = Error("setattr", ENOENT)
          /\ open(ino) = Error("open", ENOENT)
          /\ \A data \in WriteData :
                Write(ino, data, "Some", "Some") =>
                    /\ reply' = Error("write", ENOENT)
                    /\ UNCHANGED << nodes, rpc_log, released >>
          /\ \A op \in OptionalOutcomes, of \in PlainOutcomes :
                Release(ino, op, of) =>
                    /\ reply' = Error("release", ENOENT)
                    /\ UNCHANGED << nodes, rpc_log, released >> ]_vars

\* One file was released with the reply ok and one with EIO after a failed
\* request; no node is left, and a second release of one of them replied
\* ENOENT.
C22_Witness ==
    /\ \E i, j \in DOMAIN released :
          /\ released[i] = "ok"
          /\ released[j] = EIO
          /\ rpc_log[j] # << >>
    /\ DOMAIN nodes = {}
    /\ ~dropped
    /\ reply = Error("release", ENOENT)

\* C23: create visibility.  A handler runs from its first statement to its
\* last before the next request is taken, and create inserts the node before
\* it returns.  So from the reply of a create until the release of the inode
\* it returned, the node is in the table: getattr, setattr and open of the
\* inode do not reply ENOENT, and no write and no release for it replies
\* ENOENT.
C23_CreateVisible ==
    [][ /\ \A i \in 1 .. Len(issued) :
              LET ino == issued[i][1]
              IN  ino \notin DOMAIN released =>
                      /\ ino \in DOMAIN nodes
                      /\ getattr(ino).result = "attr"
                      /\ \A size \in SetattrSizes : setattr(ino, size).result = "attr"
                      /\ open(ino).result = "opened"
                      /\ reply'.op = "write" =>
                            \A data \in WriteData,
                               oc \in OptionalOutcomes, op \in OptionalOutcomes :
                                Write(ino, data, oc, op) =>
                                    reply' # Error("write", ENOENT)
                      /\ reply'.op = "release" =>
                            \A op \in OptionalOutcomes, of \in PlainOutcomes :
                                Release(ino, op, of) =>
                                    /\ reply' # Error("release", ENOENT)
                                    /\ ino \in DOMAIN released'
        /\ (reply'.op = "create" /\ reply'.result = "created") =>
              /\ reply'.fh \in DOMAIN nodes'
              /\ nodes'[reply'.fh].file_attr = reply'.attr ]_vars

\* The request right after the create of a second file was a write for it,
\* and it replied written.
C23_Witness ==
    /\ Len(issued) = 2
    /\ issued[2][1] \in DOMAIN nodes
    /\ issued[1][1] \in DOMAIN nodes
    /\ written[issued[1][1]] = << >>
    /\ written[issued[2][1]] # << >>
    /\ reply.op = "write"
    /\ reply.result = "written"
    /\ n_writes = 1

\* C24: attributes are frozen.  For a node of the table getattr and setattr
\* reply with the attributes of its create (its own inode, size 0, mode 0o220),
\* however many bytes were written to it and whatever size setattr proposes;
\* setattr replies ENOENT for every inode that is not in the node table, the
\* static ones included, and changes nothing but the reply.
C24_FrozenAttributes ==
    [][ /\ reply'.op = "setattr" =>
              \A ino \in InodeArgs, size \in SetattrSizes :
                  Setattr(ino, size) =>
                      /\ IF ino \in DOMAIN nodes
                         THEN /\ reply'.result = "attr"
                              /\ reply'.attr = FileAttr(ino, 0, "RegularFile", 144, 1)
                         ELSE reply' = Error("setattr", ENOENT)
                      /\ UNCHANGED << nodes, rpc_log, next_upload_id, id_generator,
                                      issued, written, released, dropped >>
        /\ reply'.op = "getattr" =>
              \A ino \in InodeArgs \ STATIC_INODES :
                  Getattr(ino) =>
                      IF ino \in DOMAIN nodes
                      THEN /\ reply'.result = "attr"
                           /\ reply'.attr = FileAttr(ino, 0, "RegularFile", 144, 1)
                      ELSE reply' = Error("getattr", ENOENT) ]_vars

\* A setattr of a node that had been passed 10 MiB - 1 replied with size 0.
C24_Witness ==
    /\ reply.op = "setattr"
    /\ reply.result = "attr"
    /\ reply.attr.size = 0
    /\ reply.attr.perm = 144
    /\ reply.attr.ino \in DOMAIN nodes
    /\ ByteLen(written[reply.attr.ino]) = 10 * 1024 * 1024 - 1

\* C25: next returns the value of the counter and adds one to it in one atomic
\* step.  However the calls of concurrent callers interleave, no two calls
\* return the same value, the values returned are start, start + 1, ... with
\* no gap, each caller sees its values ascend, and the counter is start + the
\* number of calls.
C25_IdAllocator ==
    LET calls  == { << c, i >> \in Callers \X (1 .. MaxCalls + 1) :
                       i <= Len(id_returned[c]) }
        values == { id_returned[x[1]][x[2]] : x \in calls }
    IN  /\ \A x, y \in calls : x # y => id_returned[x[1]][x[2]] # id_returned[y[1]][y[2]]
        /\ values = id_start .. (id_start + Cardinality(calls) - 1)
        /\ id_generator = id_start + Cardinality(calls)
        /\ \A c \in Callers : \A i, j \in 1 .. Len(id_returned[c]) :
              i < j => id_returned[c][i] < id_returned[c][j]

\* Three callers have made two calls each of a generator started at 10; the
\* first caller got the first value and the last.
C25_Witness ==
    /\ id_start = 10
    /\ \A c \in Callers : Len(id_returned[c]) = 2
    /\ id_returned[1] = << 10, 15 >>
    /\ id_generator = 16

\* C26: teardown is unconditional and sends only aborts.  The drop of the
\* dispatcher calls destroy on every node of the table: each node whose upload
\* is Multipart gets one abort-multipart-upload, also when the abort of another
\* node fails, and a node whose upload is Regular or Empty gets no request, so
\* what it has buffered is never put.  No node is added or removed, and the
\* file of no other inode gets a request.
C26_Teardown ==
    [][ (~dropped /\ dropped') =>
          /\ DOMAIN nodes' = DOMAIN nodes
          /\ \A ino \in DOMAIN nodes :
                /\ nodes'[ino].upload = Empty
                /\ \A i \in 1 .. Len(NewRequests(ino)) :
                      NewRequests(ino)[i].op = "abort_multipart_upload"
                /\ Len(NewRequests(ino)) =
                       (IF nodes[ino].upload.state = "Multipart" THEN 1 ELSE 0)
          /\ \A ino \in Files \ DOMAIN nodes : rpc_log'[ino] = rpc_log[ino] ]_vars

\* The dispatcher was dropped with two Multipart nodes; the abort of one failed
\* and the other was aborted all the same.
C26_Witness ==
    /\ dropped
    /\ \E i, j \in DOMAIN nodes :
          /\ rpc_log[i] # << >>
          /\ rpc_log[i][Len(rpc_log[i])].op = "abort_multipart_upload"
          /\ rpc_log[i][Len(rpc_log[i])].outcome = "Err"
          /\ rpc_log[j] # << >>
          /\ rpc_log[j][Len(rpc_log[j])].op = "abort_multipart_upload"
          /\ rpc_log[j][Len(rpc_log[j])].outcome = "Ok"

\* The length of the body that was uploaded for a file under a part number and
\* acknowledged.
PartSize(log, number) ==
    LET sent == SelectSeq(UploadParts(log),
                          LAMBDA r : r.part_number = number /\ r.outcome = "Some")
    IN  IF sent = << >> THEN 0 ELSE ByteLen(sent[1].body)

\* C27: the part-size rule.  In the parts list of every
\* complete-multipart-upload, every part but the last has a body of at least
\* 5 MiB; every upload-part a write sends has a body of at least 5 MiB, so
\* only the part finish uploads can be smaller.
C27_PartSizes ==
    [][ \A ino \in Files :
          LET new == NewRequests(ino)
          IN  \A i \in 1 .. Len(new) :
                  /\ new[i].op = "complete_multipart_upload" =>
                        \A k \in 1 .. Len(new[i].parts) - 1 :
                            PartSize(rpc_log'[ino], new[i].parts[k].part_number)
                                >= 5 * 1024 * 1024
                  /\ (new[i].op = "upload_part" /\ n_writes' = n_writes + 1) =>
                        ByteLen(new[i].body) >= 5 * 1024 * 1024 ]_vars

\* An upload was completed with a first part of 5 MiB and a last part of three
\* bytes.
C27_Witness ==
    \E ino \in DOMAIN released :
        /\ released[ino] = "ok"
        /\ Len(rpc_log[ino]) = 4
        /\ rpc_log[ino][4].op = "complete_multipart_upload"
        /\ Len(rpc_log[ino][4].parts) = 2
        /\ PartSize(rpc_log[ino], 1) = 5 * 1024 * 1024
        /\ PartSize(rpc_log[ino], 2) = 3

\* A request was answered as asked: with its upload id or e_tag, or with Ok.
Acknowledged(r) == r.outcome \in {"Some", "Ok"}

\* C28: the requests of one file are serialized.  A handler waits for the
\* answer to a request before it does anything else, so a request is sent only
\* after every earlier request of the file has been answered, and a request
\* that failed is the last of its file: upload-part n + 1 and
\* complete-multipart-upload are sent only after upload-part n was
\* acknowledged, and every part of a completed list was acknowledged before
\* the complete was sent.
C28_Serialized ==
    \A ino \in Files :
        LET log == rpc_log[ino]
        IN  /\ \A i \in 1 .. Len(log) - 1 : Acknowledged(log[i])
            /\ \A i \in 1 .. Len(log) :
                  /\ log[i].op = "upload_part" =>
                        /\ \E j \in 1 .. i - 1 :
                              /\ log[j].op = "create_multipart_upload"
                              /\ log[j].upload_id = log[i].upload_id
                        /\ log[i].part_number > 1 =>
                              /\ log[i - 1].op = "upload_part"
                              /\ log[i - 1].part_number = log[i].part_number - 1
                              /\ Acknowledged(log[i - 1])
                  /\ log[i].op = "complete_multipart_upload" =>
                        /\ log[i - 1].op = "upload_part"
                        /\ Acknowledged(log[i - 1])
                        /\ PartNumbers(log[i].parts) = [k \in 1 .. i - 2 |-> k]
                        /\ \A k \in 1 .. i - 2 :
                              /\ log[k + 1].op = "upload_part"
                              /\ log[k + 1].part_number = k
                        /\ i = Len(log)

\* Two writes of 5 MiB each went out as the parts 1 and 2, one after the
\* other, and the release completed the upload after both were acknowledged.
C28_Witness ==
    \E ino \in DOMAIN released :
        /\ Len(rpc_log[ino]) = 4
        /\ rpc_log[ino][2].op = "upload_part"
        /\ rpc_log[ino][3].op = "upload_part"
        /\ ByteLen(rpc_log[ino][3].body) = 5 * 1024 * 1024
        /\ rpc_log[ino][4].op = "complete_multipart_upload"
        /\ \A i \in 1 .. 4 : Acknowledged(rpc_log[ino][i])

\* C29: a file with a failed write is never materialized.  Once a write for an
\* inode has replied EIO, no put-object and no complete-multipart-upload is
\* sent for its file (no request at all is), whatever is written to it
\* afterwards, and its release replies EIO.
C29_FailedWriteNeverMaterialized ==
    \A ino \in DOMAIN write_failed :
        LET log   == rpc_log[ino]
            after == SubSeq(log, write_failed[ino] + 1, Len(log))
        IN  /\ Requests(after, {"put_object", "complete_multipart_upload"}) = << >>
            /\ after = << >>
            /\ Requests(log, {"put_object", "complete_multipart_upload"}) = << >>
            /\ ino \in DOMAIN released => released[ino] = EIO
            /\ ino \in DOMAIN nodes => nodes[ino].upload = Empty

\* The first write of a file replied EIO, a second write of it replied
\* written, and its release replied EIO without a request.
C29_Witness ==
    \E ino \in DOMAIN write_failed :
        /\ Len(written[ino]) = 2
        /\ ino \in DOMAIN released
        /\ released[ino] = EIO
        /\ reply = Error("release", EIO)
        /\ Len(rpc_log[ino]) = write_failed[ino]

\* The positions of the requests of a log with one of the given operations.
Positions(log, ops) == { i \in 1 .. Len(log) : log[i].op \in ops }

\* C30: the two upload paths exclude each other and an upload ends at most
\* once.  Over the life of a file put-object is sent at most once, and only
\* when create-multipart-upload was never sent for it;
\* create-multipart-upload is sent at most once; for one upload id at most one
\* complete-multipart-upload or abort-multipart-upload is sent, once, and no
\* upload-part follows it.  No upload id belongs to two files.
C30_ExclusivePaths ==
    /\ \A ino \in Files :
          LET log   == rpc_log[ino]
              puts  == Positions(log, {"put_object"})
              news  == Positions(log, {"create_multipart_upload"})
              ends  == Positions(log, {"complete_multipart_upload",
                                       "abort_multipart_upload"})
              parts == Positions(log, {"upload_part"})
          IN  /\ Cardinality(puts) <= 1
              /\ puts # {} => news = {}
              /\ Cardinality(news) <= 1
              /\ \A i, j \in ends : log[i].upload_id = log[j].upload_id => i = j
              /\ \A i \in ends :
                    /\ log[i].upload_id \in UploadIds(log)
                    /\ \A j \in parts : log[j].upload_id = log[i].upload_id => j < i
    /\ \A i, j \in Files : i # j => UploadIds(rpc_log[i]) \cap UploadIds(rpc_log[j]) = {}

\* One file was uploaded with a single put-object; the multipart upload of
\* the other was aborted when the dispatcher was dropped.
C30_Witness ==
    /\ dropped
    /\ \E i, j \in Files :
          /\ i \in DOMAIN released
          /\ Len(rpc_log[i]) = 1
          /\ rpc_log[i][1].op = "put_object"
          /\ written[i] # << >>
          /\ j \in DOMAIN nodes
          /\ Len(rpc_log[j]) = 3
          /\ rpc_log[j][3].op = "abort_multipart_upload"

====
